---- MODULE Spec2Model ----
(***************************************************************************)
(* Model of snaProvider.Configure (internal/provider/provider.go): the     *)
(* resolution of host, username and password from the provider             *)
(* configuration and the process environment, the two validation gates,    *)
(* the masked logging context and the construction of the API client.      *)
(***************************************************************************)
EXTENDS Integers, Sequences, FiniteSets, TLC

VARIABLES
    env,            \* the process environment: SNA_* name -> string ("" when unset)
    config,         \* req.Config of the latest Configure call (snaProviderModel)
    answer,         \* what sna.NewClient answers in the latest call
    envAtCall,      \* the environment as it was when the latest call ran
    resp,           \* the ConfigureResponse the latest call filled in
    log,            \* the records the latest call emitted through tflog
    envReads,       \* the os.Getenv calls of the latest call, in order
    locals,         \* the locals host, username, password of the latest call
    newClientArgs,  \* the argument triples sna.NewClient received in the latest call
    ret,            \* the return statement the latest call left through
    afterError      \* TRUE iff the call before the latest one left an error

vars == <<env, config, answer, envAtCall, resp, log, envReads, locals,
          newClientArgs, ret, afterError>>

----------------------------------------------------------------------------
(* Input domains.                                                          *)

ConfigValues == {"", "a"}
EnvValues == {"", "b"}
ErrorTexts == {"connection refused", "invalid credentials"}

Fields == {"host", "username", "password"}
FieldOrder == <<"host", "username", "password">>

EnvNames == {"SNA_HOST", "SNA_USERNAME", "SNA_PASSWORD"}

EnvVar(f) ==
    CASE f = "host" -> "SNA_HOST"
      [] f = "username" -> "SNA_USERNAME"
      [] f = "password" -> "SNA_PASSWORD"

----------------------------------------------------------------------------
(* types.String: null, unknown or a known value.                           *)

StringNull == [state |-> "null", value |-> ""]
StringUnknown == [state |-> "unknown", value |-> ""]
StringValue(v) == [state |-> "known", value |-> v]

IsNull(s) == s.state = "null"
IsUnknown(s) == s.state = "unknown"
ValueString(s) == IF s.state = "known" THEN s.value ELSE ""

StringStates == {StringNull, StringUnknown} \cup {StringValue(v) : v \in ConfigValues}

snaProviderModel == [Fields -> StringStates]

----------------------------------------------------------------------------
(* Diagnostics.                                                            *)

NewErrorDiagnostic(path, summary, detail) ==
    [severity |-> "Error", path |-> path, summary |-> summary, detail |-> detail]

Contains(diags, d) == \E i \in DOMAIN diags : diags[i] = d

AppendDiagnostic(diags, d) == IF Contains(diags, d) THEN diags ELSE Append(diags, d)

HasError(diags) == \E i \in DOMAIN diags : diags[i].severity = "Error"

UnknownSummary(f) ==
    CASE f = "host" -> "Unknown Secure Network Analytics API Host"
      [] f = "username" -> "Unknown Secure Network Analytics API Username"
      [] f = "password" -> "Unknown Secure Network Analytics API Password"

UnknownDetail(f) ==
    CASE f = "host" ->
           "The provider cannot create the Secure Network Analytics API client as there is an unknown configuration value for the Secure Network Analytics API host. Either target apply the source of the value first, set the value statically in the configuration, or use the SNA_HOST environment variable."
      [] f = "username" ->
           "The provider cannot create the Secure Network Analytics API client as there is an unknown configuration value for the Secure Network Analytics API username. Either target apply the source of the value first, set the value statically in the configuration, or use the SNA_USERNAME environment variable."
      [] f = "password" ->
           "The provider cannot create the Secure Network Analytics API client as there is an unknown configuration value for the Secure Network Analytics API password. Either target apply the source of the value first, set the value statically in the configuration, or use the SNA_PASSWORD environment variable."

MissingSummary(f) ==
    CASE f = "host" -> "Missing Secure Network Analytics API Host"
      [] f = "username" -> "Missing Secure Network Analytics API Username"
      [] f = "password" -> "Missing Secure Network Analytics API Password"

MissingDetail(f) ==
    CASE f = "host" ->
           "The provider cannot create the Secure Network Analytics API client as there is a missing or empty value for the Secure Network Analytics API host. Set the host value in the configuration or use the SNA_HOST environment variable. If either is already set, ensure the value is not empty."
      [] f = "username" ->
           "The provider cannot create the Secure Network Analytics API client as there is a missing or empty value for the Secure Network Analytics API username. Set the username value in the configuration or use the SNA_USERNAME environment variable. If either is already set, ensure the value is not empty."
      [] f = "password" ->
           "The provider cannot create the Secure Network Analytics API client as there is a missing or empty value for the Secure Network Analytics API password. Set the password value in the configuration or use the SNA_PASSWORD environment variable. If either is already set, ensure the value is not empty."

UnknownDiagnostic(f) == NewErrorDiagnostic(f, UnknownSummary(f), UnknownDetail(f))
MissingDiagnostic(f) == NewErrorDiagnostic(f, MissingSummary(f), MissingDetail(f))

ClientErrorSummary == "Unable to Create Secure Network Analytics API Client"

ClientErrorDetail(text) ==
    "An unexpected error occurred when creating the Secure Network Analytics API client. If the error is not clear, please contact the provider developers.\n\nSecure Network Analytics Client Error: " \o text

ClientErrorDiagnostic(text) ==
    NewErrorDiagnostic("", ClientErrorSummary, ClientErrorDetail(text))

----------------------------------------------------------------------------
(* tflog: a context carries fields and the keys whose values are masked;   *)
(* a record is rendered from the context's fields and the call's own.      *)

MaskPlaceholder == "***"

NoFields == [k \in {} |-> ""]

NewContext == [fields |-> NoFields, masked |-> {}]

SetField(ctx, key, value) ==
    [ctx EXCEPT !.fields = [k \in (DOMAIN ctx.fields) \cup {key} |->
                               IF k = key THEN value ELSE ctx.fields[k]]]

MaskFieldValuesWithFieldKeys(ctx, keys) ==
    [ctx EXCEPT !.masked = ctx.masked \cup keys]

Render(ctx, additional) ==
    [k \in (DOMAIN ctx.fields) \cup (DOMAIN additional) |->
        IF k \in ctx.masked THEN MaskPlaceholder
        ELSE IF k \in DOMAIN additional THEN additional[k]
        ELSE ctx.fields[k]]

LogRecord(ctx, level, message, additional) ==
    [level |-> level, message |-> message, fields |-> Render(ctx, additional)]

SuccessField == [k \in {"success"} |-> "true"]

----------------------------------------------------------------------------
(* sna.NewClient: the client built from the three values, or an error.     *)

NilClient == [isNil |-> TRUE, host |-> "", username |-> "", password |-> ""]

NoError == [failed |-> FALSE, text |-> ""]

NewClientAnswers == {NoError} \cup {[failed |-> TRUE, text |-> t] : t \in ErrorTexts}

NewClient(host, username, password, ans) ==
    IF ans.failed
    THEN [client |-> NilClient, err |-> ans]
    ELSE [client |-> [isNil |-> FALSE, host |-> host, username |-> username,
                      password |-> password],
          err |-> NoError]

----------------------------------------------------------------------------
(* The steps of Configure.                                                 *)

EmptyResponse ==
    [Diagnostics |-> <<>>, DataSourceData |-> NilClient, ResourceData |-> NilClient]

NoLocals == [set |-> FALSE, host |-> "", username |-> "", password |-> ""]

\* req.Config.Get into three optional types.String attributes: no diagnostics.
ConfigGet(cfg) == <<>>

AppendAll(diags, more) ==
    IF more = <<>> THEN diags
    ELSE LET RECURSIVE go(_, _)
             go(acc, i) == IF i > Len(more) THEN acc
                           ELSE go(AppendDiagnostic(acc, more[i]), i + 1)
         IN go(diags, 1)

AddUnknown(diags, cfg, f) ==
    IF IsUnknown(cfg[f]) THEN AppendDiagnostic(diags, UnknownDiagnostic(f)) ELSE diags

CheckUnknown_FirstOnly(diags, cfg) ==
    IF IsUnknown(cfg["host"]) THEN AddUnknown(diags, cfg, "host")
    ELSE IF IsUnknown(cfg["username"]) THEN AddUnknown(diags, cfg, "username")
    ELSE AddUnknown(diags, cfg, "password")

CheckUnknown(diags, cfg) ==
    AddUnknown(AddUnknown(AddUnknown(diags, cfg, "host"), cfg, "username"),
               cfg, "password")

UnknownGate(diags) == HasError(diags)

Getenv(e, name) == e[name]

MergeValue_EnvWins(field, envValue) ==
    IF envValue # "" THEN envValue ELSE ValueString(field)

MergeValue_EmptyAsAbsent(field, envValue) ==
    IF ~IsNull(field) /\ ValueString(field) # "" THEN ValueString(field) ELSE envValue

MergeValue(field, envValue) ==
    IF ~IsNull(field) THEN ValueString(field) ELSE envValue

Resolve_OnlyWhenNull(cfg, e) ==
    [locals |-> [set |-> TRUE,
                 host |-> IF IsNull(cfg["host"]) THEN Getenv(e, "SNA_HOST")
                          ELSE ValueString(cfg["host"]),
                 username |-> IF IsNull(cfg["username"]) THEN Getenv(e, "SNA_USERNAME")
                              ELSE ValueString(cfg["username"]),
                 password |-> IF IsNull(cfg["password"]) THEN Getenv(e, "SNA_PASSWORD")
                              ELSE ValueString(cfg["password"])],
     reads |-> SelectSeq(<<"SNA_HOST", "SNA_USERNAME", "SNA_PASSWORD">>,
                         LAMBDA n : \E f \in Fields : EnvVar(f) = n /\ IsNull(cfg[f]))]

Resolve(cfg, e) ==
    [locals |-> [set |-> TRUE,
                 host |-> MergeValue(cfg["host"], Getenv(e, "SNA_HOST")),
                 username |-> MergeValue(cfg["username"], Getenv(e, "SNA_USERNAME")),
                 password |-> MergeValue(cfg["password"], Getenv(e, "SNA_PASSWORD"))],
     reads |-> <<"SNA_HOST", "SNA_USERNAME", "SNA_PASSWORD">>]

AddMissing(diags, l, f) ==
    IF l[f] = "" THEN AppendDiagnostic(diags, MissingDiagnostic(f)) ELSE diags

CheckMissing_FirstOnly(diags, l) ==
    IF l["host"] = "" THEN AddMissing(diags, l, "host")
    ELSE IF l["username"] = "" THEN AddMissing(diags, l, "username")
    ELSE AddMissing(diags, l, "password")

CheckMissing(diags, l) ==
    AddMissing(AddMissing(AddMissing(diags, l, "host"), l, "username"), l, "password")

MissingGate_Open(diags) == FALSE

MissingGate(diags) == HasError(diags)

LogContext_Unmasked(l) ==
    SetField(SetField(SetField(NewContext, "sna_host", l.host),
                      "sna_username", l.username),
             "sna_password", l.password)

LogContext(l) ==
    MaskFieldValuesWithFieldKeys(
        SetField(SetField(SetField(NewContext, "sna_host", l.host),
                          "sna_username", l.username),
                 "sna_password", l.password),
        {"sna_password"})

\* A run of Configure: the response, the log, the environment reads, the
\* locals, the calls of sna.NewClient and the return statement taken.
StartRun(resp0) ==
    [resp |-> resp0,
     log |-> <<LogRecord(NewContext, "info",
                         "Configuring Secure Network Analytics client", NoFields)>>,
     envReads |-> <<>>,
     locals |-> NoLocals,
     newClientArgs |-> <<>>,
     ret |-> "running"]

AddDiagnostics(s, diags) == [s EXCEPT !.resp.Diagnostics = diags]

Return(s, where) == [s EXCEPT !.ret = where]

CreateClient_HandsOutOnError(s, ctx, ans) ==
    LET l == s.locals
        r == NewClient(l.host, l.username, l.password, NoError)
        called == [s EXCEPT !.newClientArgs = Append(@, <<l.host, l.username, l.password>>)]
    IN IF ans.failed
       THEN Return([called EXCEPT
                       !.resp.Diagnostics =
                           AppendDiagnostic(@, ClientErrorDiagnostic(ans.text)),
                       !.resp.DataSourceData = r.client,
                       !.resp.ResourceData = r.client],
                   "client")
       ELSE Return([called EXCEPT
                       !.resp.DataSourceData = r.client,
                       !.resp.ResourceData = r.client,
                       !.log = Append(@, LogRecord(ctx, "info",
                                   "Configured Secure Network Analytics client",
                                   SuccessField))],
                   "done")

CreateClient_Retry(s, ctx, ans) ==
    LET l == s.locals
        r == NewClient(l.host, l.username, l.password, ans)
        called == [s EXCEPT !.newClientArgs =
                       IF r.err.failed
                       THEN @ \o <<<<l.host, l.username, l.password>>,
                                   <<l.host, l.username, l.password>>>>
                       ELSE Append(@, <<l.host, l.username, l.password>>)]
    IN IF r.err.failed
       THEN Return([called EXCEPT
                       !.resp.Diagnostics =
                           AppendDiagnostic(@, ClientErrorDiagnostic(r.err.text))],
                   "client")
       ELSE Return([called EXCEPT
                       !.resp.DataSourceData = r.client,
                       !.resp.ResourceData = r.client,
                       !.log = Append(@, LogRecord(ctx, "info",
                                   "Configured Secure Network Analytics client",
                                   SuccessField))],
                   "done")

CreateClient(s, ctx, ans) ==
    LET l == s.locals
        r == NewClient(l.host, l.username, l.password, ans)
        called == [s EXCEPT !.newClientArgs = Append(@, <<l.host, l.username, l.password>>)]
    IN IF r.err.failed
       THEN Return([called EXCEPT
                       !.resp.Diagnostics =
                           AppendDiagnostic(@, ClientErrorDiagnostic(r.err.text))],
                   "client")
       ELSE Return([called EXCEPT
                       !.resp.DataSourceData = r.client,
                       !.resp.ResourceData = r.client,
                       !.log = Append(@, LogRecord(ctx, "info",
                                   "Configured Secure Network Analytics client",
                                   SuccessField))],
                   "done")

Configure(resp0, cfg, e, ans) ==
    LET s0 == StartRun(resp0)
        s1 == AddDiagnostics(s0, AppendAll(s0.resp.Diagnostics, ConfigGet(cfg)))
    IN IF HasError(s1.resp.Diagnostics) THEN Return(s1, "get")
       ELSE
       LET s2 == AddDiagnostics(s1, CheckUnknown(s1.resp.Diagnostics, cfg))
       IN IF UnknownGate(s2.resp.Diagnostics) THEN Return(s2, "unknown")
          ELSE
          LET m == Resolve(cfg, e)
              s3 == [s2 EXCEPT !.locals = m.locals, !.envReads = @ \o m.reads]
              s4 == AddDiagnostics(s3, CheckMissing(s3.resp.Diagnostics, s3.locals))
          IN IF MissingGate(s4.resp.Diagnostics) THEN Return(s4, "missing")
             ELSE
             LET ctx == LogContext(s4.locals)
                 s5 == [s4 EXCEPT !.log = Append(@, LogRecord(ctx, "debug",
                                       "Creating Secure Network Analytics client",
                                       NoFields))]
             IN CreateClient(s5, ctx, ans)

----------------------------------------------------------------------------
(* The state machine: the environment changes between calls, and the       *)
(* framework calls Configure with a fresh response.                        *)

NullConfig == [f \in Fields |-> StringNull]

Init ==
    /\ env \in [EnvNames -> EnvValues]
    /\ config = NullConfig
    /\ answer = NoError
    /\ envAtCall = [n \in EnvNames |-> ""]
    /\ resp = EmptyResponse
    /\ log = <<>>
    /\ envReads = <<>>
    /\ locals = NoLocals
    /\ newClientArgs = <<>>
    /\ ret = "none"
    /\ afterError = FALSE

Finish(s, cfg, ans) ==
    /\ config' = cfg
    /\ answer' = ans
    /\ envAtCall' = env
    /\ resp' = s.resp
    /\ log' = s.log
    /\ envReads' = s.envReads
    /\ locals' = s.locals
    /\ newClientArgs' = s.newClientArgs
    /\ ret' = s.ret
    /\ afterError' = HasError(resp.Diagnostics)
    /\ UNCHANGED env

ConfigureCall_KeepsResponse(cfg, ans) ==
    Finish(Configure(resp, cfg, env, ans), cfg, ans)

ConfigureCall(cfg, ans) ==
    Finish(Configure(EmptyResponse, cfg, env, ans), cfg, ans)

Setenv(name, value) ==
    /\ env[name] # value
    /\ env' = [env EXCEPT ![name] = value]
    /\ UNCHANGED <<config, answer, envAtCall, resp, log, envReads, locals,
                   newClientArgs, ret, afterError>>

Next ==
    \/ \E cfg \in snaProviderModel, ans \in NewClientAnswers : ConfigureCall(cfg, ans)
    \/ \E name \in EnvNames, value \in EnvValues : Setenv(name, value)

Spec == Init /\ [][Next]_vars

TypeOK ==
    /\ env \in [EnvNames -> EnvValues]
    /\ config \in snaProviderModel
    /\ answer \in NewClientAnswers
    /\ ret \in {"none", "get", "unknown", "missing", "client", "done"}

----------------------------------------------------------------------------
(* Vocabulary of the properties.                                           *)

Ran == ret # "none"

Diags == resp.Diagnostics

AnyUnknown == \E f \in Fields : IsUnknown(config[f])

UnknownFields == SelectSeq(FieldOrder, LAMBDA f : IsUnknown(config[f]))

EmptyFields == SelectSeq(FieldOrder, LAMBDA f : locals[f] = "")

UnknownErrorsAt(f) ==
    {i \in DOMAIN Diags : /\ Diags[i].severity = "Error"
                          /\ Diags[i].path = f
                          /\ Diags[i].summary = UnknownSummary(f)}

MissingErrorsAt(f) ==
    {i \in DOMAIN Diags : /\ Diags[i].severity = "Error"
                          /\ Diags[i].path = f
                          /\ Diags[i].summary = MissingSummary(f)}

AllUnknownErrors == UNION {UnknownErrorsAt(f) : f \in Fields}

AllMissingErrors == UNION {MissingErrorsAt(f) : f \in Fields}

HandedOut == ~resp.DataSourceData.isNil /\ ~resp.ResourceData.isNil

NothingHandedOut == resp.DataSourceData.isNil /\ resp.ResourceData.isNil

LocalsTriple == <<locals.host, locals.username, locals.password>>

----------------------------------------------------------------------------
\* C1: every completed run of Configure either hands a client to the caller
\* (DataSourceData and ResourceData both set) with no Error diagnostic, or
\* hands out nothing and leaves at least one Error diagnostic.
AllOrNothing ==
    Ran => \/ HandedOut /\ ~HasError(Diags)
           \/ NothingHandedOut /\ HasError(Diags)

AllOrNothingWitness ==
    /\ ret = "client"
    /\ answer.failed
    /\ NothingHandedOut
    /\ HasError(Diags)
    /\ \E f \in Fields : IsNull(config[f])

\* C2: when at least one field is unknown the run returns at the first gate
\* with exactly one Unknown error per unknown field and none for the others,
\* reads no environment variable, merges nothing, reports no Missing error
\* and does not call sna.NewClient.
UnknownGateStops ==
    (Ran /\ AnyUnknown) =>
        /\ ret = "unknown"
        /\ \A f \in Fields :
              Cardinality(UnknownErrorsAt(f)) = IF IsUnknown(config[f]) THEN 1 ELSE 0
        /\ Len(Diags) = Len(UnknownFields)
        /\ AllMissingErrors = {}
        /\ ~locals.set
        /\ envReads = <<>>
        /\ newClientArgs = <<>>
        /\ NothingHandedOut

UnknownGateStopsWitness ==
    /\ ret = "unknown"
    /\ IsUnknown(config["username"])
    /\ IsUnknown(config["password"])
    /\ IsNull(config["host"])
    /\ envAtCall["SNA_HOST"] = ""
    /\ Len(Diags) = 2

\* C3: in a run with no unknown field the diagnostics hold exactly one
\* Missing error per field whose merged value is empty and none for the
\* others; with at least one such error no client is built; all three fields
\* null under an empty environment gives exactly the three Missing errors.
CompletenessValidation ==
    (Ran /\ ~AnyUnknown) =>
        /\ locals.set
        /\ \A f \in Fields :
              Cardinality(MissingErrorsAt(f)) = IF locals[f] = "" THEN 1 ELSE 0
        /\ (EmptyFields # <<>>) =>
              /\ ret = "missing"
              /\ Len(Diags) = Len(EmptyFields)
              /\ NothingHandedOut
              /\ newClientArgs = <<>>
        /\ ((\A f \in Fields : IsNull(config[f]) /\ envAtCall[EnvVar(f)] = "") =>
              Diags = <<MissingDiagnostic("host"), MissingDiagnostic("username"),
                        MissingDiagnostic("password")>>)

CompletenessValidationWitness ==
    /\ ret = "missing"
    /\ \A f \in Fields : IsNull(config[f]) /\ envAtCall[EnvVar(f)] = ""
    /\ Len(Diags) = 3

\* C4: in a run that reaches the merge, a known field resolves to its
\* configured value and a null field to its environment value; a null field
\* with an empty environment value ends the run with a Missing error for it;
\* sna.NewClient receives exactly the resolved values.
Precedence ==
    locals.set =>
        /\ \A f \in Fields :
              /\ (config[f].state = "known") => locals[f] = config[f].value
              /\ IsNull(config[f]) => locals[f] = envAtCall[EnvVar(f)]
              /\ (IsNull(config[f]) /\ envAtCall[EnvVar(f)] = "") =>
                    (MissingErrorsAt(f) # {} /\ ret = "missing")
        /\ \A i \in DOMAIN newClientArgs : newClientArgs[i] = LocalsTriple
        /\ (ret = "done") =>
              /\ newClientArgs # <<>>
              /\ resp.DataSourceData.host = locals.host
              /\ resp.DataSourceData.username = locals.username
              /\ resp.DataSourceData.password = locals.password

PrecedenceWitness ==
    /\ ret = "done"
    /\ config["host"] = StringValue("a")
    /\ envAtCall["SNA_HOST"] = "b"
    /\ IsNull(config["username"])
    /\ envAtCall["SNA_USERNAME"] = "b"
    /\ newClientArgs = <<<<"a", "b", locals.password>>>>

\* C5 as stated: a field known with the empty string, whose environment
\* variable is non-empty, resolves to the environment value and gets no
\* Missing error.
EmptyExplicitFallsBackToEnv ==
    \A f \in Fields :
        (locals.set /\ config[f] = StringValue("") /\ envAtCall[EnvVar(f)] # "") =>
            /\ locals[f] = envAtCall[EnvVar(f)]
            /\ MissingErrorsAt(f) = {}

\* C5 amended: a field known with the empty string overrides its environment
\* value: the resolved value is empty whatever the environment holds, the
\* run ends at the second gate with exactly one Missing error for the field
\* and no client is built.
EmptyExplicitOverridesEnv ==
    \A f \in Fields :
        (locals.set /\ config[f] = StringValue("")) =>
            /\ locals[f] = ""
            /\ Cardinality(MissingErrorsAt(f)) = 1
            /\ ret = "missing"
            /\ NothingHandedOut
            /\ newClientArgs = <<>>

EmptyExplicitOverridesEnvWitness ==
    /\ ret = "missing"
    /\ config["password"] = StringValue("")
    /\ envAtCall["SNA_PASSWORD"] = "b"
    /\ locals.password = ""
    /\ Diags = <<MissingDiagnostic("password")>>

\* C6: when both gates pass, sna.NewClient is called exactly once; on an
\* error the run leaves exactly one Error diagnostic with the fixed summary
\* and the error text in its detail and hands out nothing; on success the
\* same client goes to DataSourceData and ResourceData and no diagnostic is
\* added.
ConstructionError ==
    (Ran /\ ~AnyUnknown /\ EmptyFields = <<>>) =>
        /\ Len(newClientArgs) = 1
        /\ answer.failed =>
              /\ ret = "client"
              /\ Diags = <<[severity |-> "Error", path |-> "",
                            summary |-> ClientErrorSummary,
                            detail |-> ClientErrorDetail(answer.text)]>>
              /\ NothingHandedOut
        /\ ~answer.failed =>
              /\ ret = "done"
              /\ Diags = <<>>
              /\ HandedOut
              /\ resp.DataSourceData = resp.ResourceData

ConstructionErrorWitness ==
    /\ ret = "client"
    /\ answer.failed
    /\ answer.text = "invalid credentials"
    /\ Len(Diags) = 1
    /\ Len(newClientArgs) = 1

ResolvedRecords == {i \in DOMAIN log : "sna_password" \in DOMAIN log[i].fields}

\* C7: in a run that resolves, every record emitted on the context that
\* carries sna_host, sna_username and sna_password shows the placeholder for
\* sna_password and the resolved values for sna_host and sna_username; in
\* every run, no record shows the password under sna_password or any field
\* other than the two that show the host and the username, and the record
\* emitted before resolution has no field.
Masking ==
    /\ \A i \in DOMAIN log :
          /\ \A k \in (DOMAIN log[i].fields) \ {"sna_host", "sna_username"} :
                locals.set => log[i].fields[k] # locals.password
          /\ i \in ResolvedRecords =>
                /\ log[i].fields["sna_password"] = MaskPlaceholder
                /\ log[i].fields["sna_host"] = locals.host
                /\ log[i].fields["sna_username"] = locals.username
          /\ i \notin ResolvedRecords => DOMAIN log[i].fields = {}
    /\ (ret = "done") => ResolvedRecords = {2, 3}
    /\ (ret = "client") => ResolvedRecords = {2}
    /\ (ret \in {"get", "unknown", "missing"}) => ResolvedRecords = {}

MaskingWitness ==
    /\ ret = "done"
    /\ Len(log) = 3
    /\ locals.password = "b"
    /\ locals.username = "a"
    /\ log[3].fields["sna_password"] = MaskPlaceholder
    /\ log[3].fields["sna_username"] = "a"

\* The outcome of a call written as a function of its inputs alone.
ExpectedValue(cfg, e, f) ==
    IF cfg[f].state = "known" THEN cfg[f].value ELSE e[EnvVar(f)]

ExpectedDiagnostics(cfg, e, ans) ==
    LET unknown == SelectSeq(FieldOrder, LAMBDA f : cfg[f].state = "unknown")
        empty == SelectSeq(FieldOrder, LAMBDA f : ExpectedValue(cfg, e, f) = "")
    IN IF unknown # <<>> THEN [i \in DOMAIN unknown |-> UnknownDiagnostic(unknown[i])]
       ELSE IF empty # <<>> THEN [i \in DOMAIN empty |-> MissingDiagnostic(empty[i])]
       ELSE IF ans.failed THEN <<ClientErrorDiagnostic(ans.text)>>
       ELSE <<>>

ExpectedClient(cfg, e, ans) ==
    IF ExpectedDiagnostics(cfg, e, ans) # <<>> THEN NilClient
    ELSE [isNil |-> FALSE,
          host |-> ExpectedValue(cfg, e, "host"),
          username |-> ExpectedValue(cfg, e, "username"),
          password |-> ExpectedValue(cfg, e, "password")]

\* C8: the outcome of every call is the same function of that call's
\* configuration, the environment at the time of the call and the answer of
\* sna.NewClient, whatever calls and environment changes came before; in
\* particular a call that follows a failed one carries none of its
\* diagnostics.
CallsIndependent ==
    Ran =>
        /\ Diags = ExpectedDiagnostics(config, envAtCall, answer)
        /\ resp.DataSourceData = ExpectedClient(config, envAtCall, answer)
        /\ resp.ResourceData = ExpectedClient(config, envAtCall, answer)
        /\ (afterError /\ ret = "done") => Diags = <<>>

CallsIndependentWitness ==
    /\ afterError
    /\ ret = "done"
    /\ envAtCall # env
    /\ Diags = <<>>
    /\ HandedOut

\* C9: sna.NewClient is called only in runs where no field is unknown and
\* all three merged values are non-empty, and then with three non-empty
\* strings; a run stopped by a gate holds one diagnostic per offending field
\* of the failing phase and never calls sna.NewClient.
GateOrdering ==
    /\ (newClientArgs # <<>>) =>
          /\ ~AnyUnknown
          /\ EmptyFields = <<>>
          /\ ret \in {"client", "done"}
          /\ \A i \in DOMAIN newClientArgs :
                \A j \in 1..3 : newClientArgs[i][j] # ""
    /\ (Ran /\ AnyUnknown) =>
          /\ ret = "unknown"
          /\ [i \in DOMAIN Diags |-> Diags[i].path] = UnknownFields
          /\ newClientArgs = <<>>
    /\ (Ran /\ ~AnyUnknown /\ EmptyFields # <<>>) =>
          /\ ret = "missing"
          /\ [i \in DOMAIN Diags |-> Diags[i].path] = EmptyFields
          /\ newClientArgs = <<>>

GateOrderingWitness ==
    /\ ret = "missing"
    /\ Len(EmptyFields) >= 2
    /\ Len(Diags) = Len(EmptyFields)
    /\ newClientArgs = <<>>

\* C10 as stated: the environment variable of a field is read only in runs
\* where that field is null.
EnvReadOnlyWhenAbsent ==
    \A i \in DOMAIN envReads :
        \A f \in Fields : (EnvVar(f) = envReads[i]) => IsNull(config[f])

\* C10 amended: a run that passes the first gate reads all three environment
\* variables, once each, whether their fields are null or known, and uses a
\* value it read only for a null field; a run with an unknown field reads
\* none of them.
EnvReadAfterUnknownGate ==
    Ran =>
        /\ ~AnyUnknown => envReads = <<"SNA_HOST", "SNA_USERNAME", "SNA_PASSWORD">>
        /\ AnyUnknown => envReads = <<>>
        /\ \A f \in Fields :
              (locals.set /\ config[f].state = "known") => locals[f] = config[f].value

EnvReadAfterUnknownGateWitness ==
    /\ ret = "done"
    /\ config["host"] = StringValue("a")
    /\ envAtCall["SNA_HOST"] = "b"
    /\ \E i \in DOMAIN envReads : envReads[i] = "SNA_HOST"
    /\ locals.host = "a"

====
